---- MODULE Spec2Model ----
(***************************************************************************)
(* lcd_spotify: a Spotify "currently playing" poller that renders to a     *)
(* character LCD.  Three specifications share this module:                 *)
(*   Spec         the LCD_Spotify tick loop of lcd_spotify.py, driven by   *)
(*                the top-level loop and the signals of __main__.py        *)
(*   SpecManager  the SpotifyManager object of spotify_manager.py under    *)
(*                arbitrary sequences of calls of its public methods       *)
(*   SpecTools    the pure functions of tools.py applied to bounded inputs *)
(* Text is a sequence of one-character strings, so lengths and indexing    *)
(* are those of the Python strings.                                        *)
(***************************************************************************)
EXTENDS Integers, Sequences, FiniteSets, TLC

VARIABLES
    \* ---- SpotifyManager (spotify_manager.py) ----
    sm_current_track,   \* SpotifyManager.current_track
    sm_last_track,      \* SpotifyManager.last_track
    sm_op,              \* the method called last
    sm_resp,            \* collaborator's answer to current_user_playing_track
    sm_liked_resp,      \* collaborator's answer to current_user_saved_tracks_contains
    sm_ret,             \* value returned by the last call
    sm_raised,          \* exception that left the last call ("none" if it returned)
    sm_calls,           \* collaborator calls issued by the last call
    sm_outcome,         \* outcome of the last call's like/unlike/skip request
    \* ---- LCD_Spotify (lcd_spotify.py) and the top-level loop ----
    current_track,      \* LCD_Spotify.current_track
    last_track,         \* LCD_Spotify.last_track
    bip,                \* LCD_Spotify.bip, the tick counter
    countdown,          \* LCD_Spotify.countdown, start of the network-info window
    now,                \* the last reading of time.time()
    lcd_rows,           \* lcd.rows, the configured number of display rows
    polled,             \* what the poll of the last tick did
    mode,               \* branch of single_step taken by the last tick
    prev_last_track,    \* last_track before the last tick
    changed,            \* the change test of offset_display_data in the last tick
    offsets,            \* the offsets last returned by offset_display_data
    writes,             \* the lcd.text calls of the last tick, in order
    raised,             \* exception that left the last tick ("none" if none)
    status,             \* "running" or "exited"
    exit_code,          \* argument of sys.exit, -1 while running
    lcd_cleared,        \* lcd.clear() has been called
    backlight,          \* LCD_Spotify.backlight
    signum,             \* signal handled by the last step ("none" for a tick)
    sig_calls,          \* collaborator calls issued by the handler of the last step
    \* ---- tools.py ----
    t_string, t_start, t_length, t_pad, \* arguments of substr_wrap
    t_out,              \* its result
    t_mod,              \* the moduli it passed to add_to_max
    t_pc,               \* "ready" before the call, "done" after
    d_string,           \* argument of remove_diacritics
    d_once,             \* remove_diacritics(d_string)
    d_twice,            \* remove_diacritics(d_once)
    d_pc                \* "ready", then "once", then "twice"

smVars == <<sm_current_track, sm_last_track, sm_op, sm_resp, sm_liked_resp,
            sm_ret, sm_raised, sm_calls, sm_outcome>>
diaVars == <<d_string, d_once, d_twice, d_pc>>
toolVars == <<t_string, t_start, t_length, t_pad, t_out, t_mod, t_pc, diaVars>>
lcdVars == <<current_track, last_track, prev_last_track, bip, countdown, now, lcd_rows, polled,
             mode, changed, offsets, writes, raised, status, exit_code,
             lcd_cleared, backlight, signum, sig_calls>>
vars == <<smVars, lcdVars, toolVars>>

(***************************************************************************)
(* Bounds of the model.                                                    *)
(***************************************************************************)
MaxLen == 3        \* longest generated text given to substr_wrap
MaxStart == 8      \* largest start given to substr_wrap
MaxLength == 5     \* largest window length given to substr_wrap
IpTimeout == 2     \* IP_TIMEOUT of the configuration, in clock units
MaxAdvance == 3    \* how far the clock advances in a run
LcdWidth == 3      \* LCD_WIDTH of the configuration
MaxRows == 4       \* largest LCD_ROWS of the configuration
MaxDiaLen == 2     \* longest text given to remove_diacritics

(***************************************************************************)
(* Data                                                                    *)
(***************************************************************************)
None == [id |-> "None"]

WRAP_PAD == <<" ", " ", " ", " ">>

RECURSIVE Join(_, _)
\* str.join: the elements of seqs separated by sep
Join(seqs, sep) ==
    IF seqs = <<>> THEN <<>>
    ELSE IF Len(seqs) = 1 THEN Head(seqs)
    ELSE Head(seqs) \o sep \o Join(Tail(seqs), sep)

\* What the streaming service can report as the playing item.  Local files
\* have no Spotify id, so two of them share the id "null".
Item1 == [type |-> "track", id |-> "t1", name |-> <<"a", "b", "c", "d">>,
          artists |-> << <<"x">>, <<"y">> >>, album |-> <<"p", "q">>,
          publisher |-> <<>>, episode |-> <<>>]
Item2 == [type |-> "track", id |-> "null", name |-> <<"a">>,
          artists |-> << <<"x">> >>, album |-> <<>>,
          publisher |-> <<>>, episode |-> <<>>]
Item3 == [type |-> "track", id |-> "null", name |-> <<"b">>,
          artists |-> << <<"x">> >>, album |-> <<>>,
          publisher |-> <<>>, episode |-> <<>>]
Item4 == [type |-> "episode", id |-> "e1", name |-> <<"e", "f", "g">>,
          artists |-> <<>>, album |-> <<>>,
          publisher |-> <<"z">>, episode |-> <<"h", "i", "j", "k", "l">>]
Item5 == [type |-> "unknown", id |-> "u1", name |-> <<"n">>,
          artists |-> <<>>, album |-> <<>>,
          publisher |-> <<>>, episode |-> <<>>]
Items == {Item1, Item2, Item3, Item4, Item5}

\* Answers of sp.current_user_playing_track(): a timeout
\* (requests.exceptions.Timeout), a protocol or authentication error
\* (SpotifyException), a connection error (requests.exceptions.ConnectionError,
\* a RequestException that is no Timeout), None, or a track dictionary.
NoItem == Item5
PlayingResponses ==
    {[kind |-> k, item |-> NoItem, is_playing |-> FALSE] :
        k \in {"timeout", "error", "connection", "none"}}
    \cup [kind : {"track"}, item : Items, is_playing : BOOLEAN]

\* Answers of sp.current_user_saved_tracks_contains([id])[0]
LikedResponses == {"true", "false", "timeout", "error", "connection"}
NoLikedCall == "notcalled"

\* One call made on the spotipy client: the method and its track id argument
Call(op, arg) == [op |-> op, arg |-> arg]

\* Outcomes of a collaborator call that returns nothing
CallOutcomes == {"ok", "timeout", "error", "connection"}
NoOutcome == "notcalled"

TrackData(id, name, album, artist, is_playing, is_liked) ==
    [id |-> id, name |-> name, album |-> album, artist |-> artist,
     is_playing |-> is_playing, is_liked |-> is_liked]

(***************************************************************************)
(* spotify_manager.py                                                      *)
(***************************************************************************)
\* an equality that trusts the id alone
TrackData_eq_id_only(self, other) ==
    IF other = None THEN FALSE ELSE self.id = other.id

\* TrackData.__eq__ of a TrackData self with any other object
TrackData_eq(self, other) ==
    IF other = None THEN FALSE
    ELSE /\ self.id = other.id
         /\ self.name = other.name
         /\ self.album = other.album
         /\ self.artist = other.artist

TrackData_ne(self, other) == ~TrackData_eq(self, other)

\* Python's a != b on TrackData | None operands: a TrackData operand's
\* __ne__ decides (reflected when the left operand is None)
Ne(a, b) ==
    IF a # None THEN TrackData_ne(a, b)
    ELSE IF b # None THEN TrackData_ne(b, a)
    ELSE FALSE

_get_artist_and_album_from_track(track) ==
    IF track.item.type = "track"
    THEN <<Join(track.item.artists, <<",", " ">>), track.item.album>>
    ELSE IF track.item.type = "episode"
    THEN <<track.item.publisher, track.item.episode>>
    ELSE <<<<>>, <<>>>>

\* _ask_spotify_if_track_liked: the value returned for a collaborator answer
\* that is not a non-timeout exception
_ask_spotify_if_track_liked(l) ==
    IF l = "timeout" THEN FALSE ELSE l = "true"

\* The exception a collaborator call of outcome o raises
Raises(o) ==
    IF o = "timeout" THEN "Timeout"
    ELSE IF o = "error" THEN "SpotifyException"
    ELSE IF o = "connection" THEN "ConnectionError"
    ELSE "none"

\* a try statement without its except clause
SM_except_nothing(o) == Raises(o)

\* an except clause that names RequestException, and so absorbs connection
\* errors together with timeouts
SM_except_RequestException(o) ==
    IF o \in {"timeout", "connection"} THEN "none" ELSE Raises(o)

\* try: <collaborator call> except requests.exceptions.Timeout: the exception
\* that leaves the method for each outcome of the call
SM_except_Timeout(o) ==
    IF o = "timeout" THEN "none" ELSE Raises(o)

\* an except branch that drops the snapshot
SM_on_timeout_clears(cur) == None

\* retrieve_track_data, the except branch for requests.exceptions.Timeout:
\* the warning is logged and current_track keeps its value
SM_on_timeout(cur) == cur

\* a poll that updates the snapshot in place and forgets the liked flag
SM_new_track_keeps_liked(cur, r, l) ==
    LET aa == _get_artist_and_album_from_track(r)
    IN  TrackData(r.item.id, r.item.name, aa[2], aa[1], r.is_playing,
                  IF cur # None THEN cur.is_liked
                  ELSE _ask_spotify_if_track_liked(l))

\* retrieve_track_data, the TrackData built from the collaborator's answers
SM_new_track(cur, r, l) ==
    LET aa == _get_artist_and_album_from_track(r)
    IN  TrackData(r.item.id, r.item.name, aa[2], aa[1], r.is_playing,
                  _ask_spotify_if_track_liked(l))

\* get_artist, get_album_name, get_track_name, is_track_liked, is_track_playing
get_artist(cur) == IF cur # None THEN cur.artist ELSE <<>>
get_album_name(cur) == IF cur # None THEN cur.album ELSE <<>>
get_track_name(cur) == IF cur # None THEN cur.name ELSE <<>>
is_track_liked(cur) == IF cur # None THEN cur.is_liked ELSE FALSE
\* an accessor that forgets the playing flag
is_track_playing_any(cur) == cur # None

is_track_playing(cur) == cur # None /\ cur.is_playing

SMInit ==
    /\ sm_current_track = None
    /\ sm_last_track = None
    /\ sm_op = "__init__"
    /\ sm_resp = [kind |-> "none", item |-> NoItem, is_playing |-> FALSE]
    /\ sm_liked_resp = NoLikedCall
    /\ sm_ret = FALSE
    /\ sm_raised = "none"
    /\ sm_calls = <<>>
    /\ sm_outcome = NoOutcome

\* retrieve_track_data with the collaborator answering r to
\* current_user_playing_track and l to current_user_saved_tracks_contains
SM_retrieve(r, l) ==
    /\ sm_resp' = r
    /\ IF r.kind = "timeout"
       THEN /\ sm_raised' = "none"
            /\ sm_liked_resp' = NoLikedCall
            /\ sm_calls' = <<Call("current_user_playing_track", "")>>
            /\ sm_current_track' = SM_on_timeout(sm_current_track)
       ELSE IF r.kind \in {"error", "connection"}
       THEN /\ sm_raised' = SM_except_Timeout(r.kind)
            /\ sm_liked_resp' = NoLikedCall
            /\ sm_calls' = <<Call("current_user_playing_track", "")>>
            /\ UNCHANGED sm_current_track
       ELSE IF r.kind = "none"
       THEN /\ sm_raised' = "none"
            /\ sm_liked_resp' = NoLikedCall
            /\ sm_calls' = <<Call("current_user_playing_track", "")>>
            /\ sm_current_track' = None
       ELSE /\ sm_liked_resp' = l
            /\ sm_calls' = <<Call("current_user_playing_track", ""),
                             Call("current_user_saved_tracks_contains",
                                  r.item.id)>>
            /\ IF l \in {"error", "connection"}
               THEN /\ sm_raised' = SM_except_Timeout(l)
                    /\ UNCHANGED sm_current_track
               ELSE /\ sm_raised' = "none"
                    /\ sm_current_track' = SM_new_track(sm_current_track, r, l)

\* SpotifyManager.retrieve_track_data
SM_retrieve_track_data ==
    \E r \in PlayingResponses, l \in LikedResponses :
        /\ sm_op' = "retrieve_track_data"
        /\ sm_ret' = FALSE
        /\ sm_outcome' = NoOutcome
        /\ UNCHANGED sm_last_track
        /\ SM_retrieve(r, l)

\* SpotifyManager.update_last_track
SM_update_last_track ==
    LET flag == Ne(sm_last_track, sm_current_track)
    IN  /\ sm_op' = "update_last_track"
        /\ sm_last_track' = IF flag THEN sm_current_track ELSE sm_last_track
        /\ sm_ret' = flag
        /\ sm_raised' = "none"
        /\ sm_calls' = <<>>
        /\ sm_outcome' = NoOutcome
        /\ UNCHANGED <<sm_current_track, sm_resp, sm_liked_resp>>

\* SpotifyManager.next_track
SM_next_track ==
    \E o \in CallOutcomes :
        /\ sm_op' = "next_track"
        /\ sm_ret' = FALSE
        /\ UNCHANGED <<sm_current_track, sm_last_track, sm_resp, sm_liked_resp>>
        /\ IF sm_current_track # None /\ sm_current_track.is_playing
           THEN /\ sm_calls' = <<Call("next_track", "")>>
                /\ sm_outcome' = o
                /\ sm_raised' = SM_except_Timeout(o)
           ELSE /\ sm_calls' = <<>>
                /\ sm_outcome' = NoOutcome
                /\ sm_raised' = "none"

\* a toggle that also flips the flag of the local snapshot
SM_toggle_track_liked_local ==
    \E o \in CallOutcomes :
        /\ sm_op' = "toggle_track_liked"
        /\ sm_ret' = FALSE
        /\ UNCHANGED <<sm_last_track, sm_resp, sm_liked_resp>>
        /\ IF sm_current_track # None /\ sm_current_track.is_playing
           THEN /\ sm_calls' =
                    IF sm_current_track.is_liked
                    THEN <<Call("current_user_saved_tracks_delete",
                                sm_current_track.id)>>
                    ELSE <<Call("current_user_saved_tracks_add",
                                sm_current_track.id)>>
                /\ sm_outcome' = o
                /\ sm_raised' = SM_except_Timeout(o)
                /\ sm_current_track' =
                        [sm_current_track EXCEPT !.is_liked = ~@]
           ELSE /\ sm_calls' = <<>>
                /\ sm_outcome' = NoOutcome
                /\ sm_raised' = "none"
                /\ UNCHANGED sm_current_track

\* SpotifyManager.toggle_track_liked
SM_toggle_track_liked ==
    \E o \in CallOutcomes :
        /\ sm_op' = "toggle_track_liked"
        /\ sm_ret' = FALSE
        /\ UNCHANGED <<sm_current_track, sm_last_track, sm_resp, sm_liked_resp>>
        /\ IF sm_current_track # None /\ sm_current_track.is_playing
           THEN /\ sm_calls' =
                    IF sm_current_track.is_liked
                    THEN <<Call("current_user_saved_tracks_delete",
                                sm_current_track.id)>>
                    ELSE <<Call("current_user_saved_tracks_add",
                                sm_current_track.id)>>
                /\ sm_outcome' = o
                /\ sm_raised' = SM_except_Timeout(o)
           ELSE /\ sm_calls' = <<>>
                /\ sm_outcome' = NoOutcome
                /\ sm_raised' = "none"

\* The answer recorded for a call that asks the collaborator nothing
NoResponse == [kind |-> "none", item |-> NoItem, is_playing |-> FALSE]

\* A call of one of the five accessors: nothing is assigned, no collaborator
\* is asked, the value of the conditional expression is returned
SM_accessor(name, value) ==
    /\ sm_op' = name
    /\ sm_ret' = value
    /\ sm_raised' = "none"
    /\ sm_calls' = <<>>
    /\ sm_outcome' = NoOutcome
    /\ sm_resp' = NoResponse
    /\ sm_liked_resp' = NoLikedCall
    /\ UNCHANGED <<sm_current_track, sm_last_track>>

SM_get_artist == SM_accessor("get_artist", get_artist(sm_current_track))
SM_get_album_name == SM_accessor("get_album_name", get_album_name(sm_current_track))
SM_get_track_name == SM_accessor("get_track_name", get_track_name(sm_current_track))
SM_is_track_liked == SM_accessor("is_track_liked", is_track_liked(sm_current_track))
SM_is_track_playing ==
    SM_accessor("is_track_playing", is_track_playing(sm_current_track))

NextManager ==
    \/ SM_retrieve_track_data /\ UNCHANGED <<lcdVars, toolVars>>
    \/ SM_update_last_track /\ UNCHANGED <<lcdVars, toolVars>>
    \/ SM_next_track /\ UNCHANGED <<lcdVars, toolVars>>
    \/ SM_toggle_track_liked /\ UNCHANGED <<lcdVars, toolVars>>
    \/ SM_get_artist /\ UNCHANGED <<lcdVars, toolVars>>
    \/ SM_get_album_name /\ UNCHANGED <<lcdVars, toolVars>>
    \/ SM_get_track_name /\ UNCHANGED <<lcdVars, toolVars>>
    \/ SM_is_track_liked /\ UNCHANGED <<lcdVars, toolVars>>
    \/ SM_is_track_playing /\ UNCHANGED <<lcdVars, toolVars>>

(***************************************************************************)
(* tools.py                                                                *)
(***************************************************************************)
add_to_max(add1, add2, max_num) == (add1 + add2) % max_num

\* a wrap that forgets the pad
substr_wrap_no_pad(string, start, length, wrap_pad) ==
    IF Len(string) <= length
    THEN string
    ELSE [i \in 1..length |-> string[add_to_max(start, i - 1, Len(string)) + 1]]

\* a wrap that scrolls a text that exactly fits
substr_wrap_strict(string, start, length, wrap_pad) ==
    IF Len(string) < length \/ string = <<>>
    THEN string
    ELSE LET padded == string \o wrap_pad
         IN  [i \in 1..length |->
                 padded[add_to_max(start, i - 1, Len(padded)) + 1]]

substr_wrap(string, start, length, wrap_pad) ==
    IF Len(string) <= length
    THEN string
    ELSE LET padded == string \o wrap_pad
         IN  [i \in 1..length |->
                 padded[add_to_max(start, i - 1, Len(padded)) + 1]]

\* a modulus taken from the pad alone
substr_wrap_moduli_pad(string, length, wrap_pad) ==
    IF Len(string) <= length
    THEN {}
    ELSE {Len(wrap_pad) : i \in 1..length}

\* substr_wrap: the third argument of add_to_max, for each index computed
substr_wrap_moduli(string, length, wrap_pad) ==
    IF Len(string) <= length
    THEN {}
    ELSE {Len(string \o wrap_pad) : i \in 1..length}

offset_wrap(string, offset) == substr_wrap(string, offset, LcdWidth, WRAP_PAD)

\* Inputs given to substr_wrap: every text over two letters up to MaxLen, and
\* the text of the docstring's examples
Digits == <<"0", "1", "2", "3", "4", "5", "6", "7", "8", "9">>
Texts == UNION {[1..n -> {"a", "b"}] : n \in 0..MaxLen} \cup {Digits}
Pads == {<<>>, <<" ">>, WRAP_PAD}

ToolsInit ==
    /\ t_string \in Texts
    /\ t_start \in 0..MaxStart
    /\ t_length \in 0..MaxLength
    /\ t_pad \in Pads
    /\ t_out = <<>>
    /\ t_mod = {}
    /\ t_pc = "ready"

\* one call of substr_wrap
T_substr_wrap ==
    /\ t_pc = "ready"
    /\ t_out' = substr_wrap(t_string, t_start, t_length, t_pad)
    /\ t_mod' = substr_wrap_moduli(t_string, t_length, t_pad)
    /\ t_pc' = "done"
    /\ UNCHANGED <<t_string, t_start, t_length, t_pad, diaVars>>

\* Characters are named by their code points.  The lookup table `outliers`
\* (LATIN zipped with ASCII), restricted to the characters of the model:
\* a-diaeresis, ae, sharp s and the letter I, which the table maps to itself
outliers(c) ==
    IF c = "U00E4" THEN <<"a">>
    ELSE IF c = "U00E6" THEN <<"a", "e">>
    ELSE IF c = "U00DF" THEN <<"s", "s">>
    ELSE IF c = "I" THEN <<"I">>
    ELSE <<c>>

\* unicodedata.normalize("NFD", c) of one character: e-acute is e + U+0301,
\* ae-macron (U+01E3) is ae + U+0304, a-diaeresis is a + U+0308
NFD(c) ==
    IF c = "U00E9" THEN <<"e", "U0301">>
    ELSE IF c = "U01E3" THEN <<"U00E6", "U0304">>
    ELSE IF c = "U00E4" THEN <<"a", "U0308">>
    ELSE <<c>>

\* unicodedata.combining(c) is not 0
combining(c) == c \in {"U0301", "U0304", "U0308"}

RECURSIVE translate(_)
\* str.translate(outliers)
translate(s) ==
    IF s = <<>> THEN <<>> ELSE outliers(Head(s)) \o translate(Tail(s))

RECURSIVE normalize(_)
\* normalize("NFD", s), character by character
normalize(s) ==
    IF s = <<>> THEN <<>> ELSE NFD(Head(s)) \o normalize(Tail(s))

\* "".join(c for c in normalize("NFD", s.translate(outliers)) if not combining(c))
remove_diacritics(s) == SelectSeq(normalize(translate(s)), LAMBDA c : ~combining(c))

\* Inputs given to remove_diacritics: ASCII, table characters and precomposed
\* letters, among them one whose decomposition has a table character as base
DiaChars == {"a", "I", "U00E4", "U00E6", "U00DF", "U00E9", "U01E3"}
DiaTexts == UNION {[1..n -> DiaChars] : n \in 0..MaxDiaLen}

DiaInit ==
    /\ d_string \in DiaTexts
    /\ d_once = <<>>
    /\ d_twice = <<>>
    /\ d_pc = "ready"

DiaIdle ==
    /\ d_string = <<>>
    /\ d_once = <<>>
    /\ d_twice = <<>>
    /\ d_pc = "idle"

\* remove_diacritics applied to the input
T_remove_diacritics ==
    /\ d_pc = "ready"
    /\ d_once' = remove_diacritics(d_string)
    /\ d_pc' = "once"
    /\ UNCHANGED <<d_string, d_twice, t_string, t_start, t_length, t_pad,
                   t_out, t_mod, t_pc>>

\* remove_diacritics applied to its own result
T_remove_diacritics_again ==
    /\ d_pc = "once"
    /\ d_twice' = remove_diacritics(d_once)
    /\ d_pc' = "twice"
    /\ UNCHANGED <<d_string, d_once, t_string, t_start, t_length, t_pad,
                   t_out, t_mod, t_pc>>

NextTools ==
    \/ T_substr_wrap /\ UNCHANGED <<smVars, lcdVars>>
    \/ T_remove_diacritics /\ UNCHANGED <<smVars, lcdVars>>
    \/ T_remove_diacritics_again /\ UNCHANGED <<smVars, lcdVars>>

(***************************************************************************)
(* lcd_spotify.py                                                          *)
(***************************************************************************)
BIPS == 4
CGRAM_CHR1 == "heart"

\* time.time() at construction: the epoch clock is far beyond any timeout
StartTime == IpTimeout + 1
MaxTime == StartTime + MaxAdvance

\* the readings time.time() can give after the reading t
Readings(t) == {u \in t..(t + 1) : u <= MaxTime}

Unbound == <<>>

\* the != of LCD_Spotify's TrackData, a dataclass with the generated __eq__:
\* all six fields are compared, and None differs from every TrackData
LCD_TrackData_ne(a, b) == a # b

\* LCD_Spotify.retrieve_track_data with the collaborator answering r to
\* current_user_playing_track and l to current_user_saved_tracks_contains:
\* the new current_track and the exception that leaves the method.  The
\* except clause names RequestException, so it absorbs connection errors too.
LCD_retrieve_track_data(cur, r, l) ==
    IF r.kind \in {"timeout", "connection"} THEN [current_track |-> cur, raised |-> "none", outcome |-> "timeout"]
    ELSE IF r.kind = "error"
    THEN [current_track |-> cur, raised |-> "SpotifyException", outcome |-> "raised"]
    ELSE IF r.kind = "none"
    THEN [current_track |-> None, raised |-> "none", outcome |-> "ok"]
    ELSE IF r.is_playing /\ l \in {"timeout", "connection"}
    THEN [current_track |-> cur, raised |-> "none", outcome |-> "timeout"]
    ELSE IF r.is_playing /\ l = "error"
    THEN [current_track |-> cur, raised |-> "SpotifyException", outcome |-> "raised"]
    ELSE IF r.item.type \notin {"track", "episode"}
    THEN \* artist_name and album_name were never assigned
         [current_track |-> cur, raised |-> "UnboundLocalError", outcome |-> "raised"]
    ELSE LET artist_name == IF r.item.type = "track"
                            THEN Join(r.item.artists, <<",", " ">>)
                            ELSE r.item.publisher
             album_name == IF r.item.type = "track"
                           THEN r.item.album
                           ELSE r.item.episode
             track_liked == IF r.is_playing THEN l = "true" ELSE FALSE
         IN  [current_track |-> TrackData(r.item.id, r.item.name, album_name,
                                          artist_name, r.is_playing, track_liked),
              raised |-> "none", outcome |-> "ok"]

\* a reset that leaves the album offset behind
ResetOffsets_partial == <<0, 0, 1>>

\* a reset to the end of the pad instead of the start of the text
ResetOffsets_pad == <<Len(WRAP_PAD), Len(WRAP_PAD), Len(WRAP_PAD)>>

\* the offsets assigned when the track changed
ResetOffsets == <<0, 0, 0>>

\* a change test that forgets to remember what it has seen
offset_display_data_no_consume(last, cur) ==
    IF LCD_TrackData_ne(last, cur)
    THEN [last_track |-> last, offsets |-> ResetOffsets, changed |-> TRUE,
          raised |-> "none"]
    ELSE [last_track |-> last, offsets |-> Unbound, changed |-> FALSE,
          raised |-> "UnboundLocalError"]

\* LCD_Spotify.offset_display_data: the new last_track, the returned offsets
\* and the exception raised.  offset_artist, offset_track and offset_album are
\* locals of the method: the else branch reads them before any assignment.
offset_display_data(last, cur) ==
    IF LCD_TrackData_ne(last, cur)
    THEN [last_track |-> cur, offsets |-> ResetOffsets, changed |-> TRUE,
          raised |-> "none"]
    ELSE [last_track |-> last, offsets |-> Unbound, changed |-> FALSE,
          raised |-> "UnboundLocalError"]

\* a step that looks at the player before the countdown
DisplayMode_track_first(t, cd, cur) ==
    IF cur # None /\ cur.is_playing THEN "ShowTrack"
    ELSE IF t - cd < IpTimeout THEN "ShowNetworkInfo"
    ELSE "ShowClock"

\* single_step, the branch taken when the clock reads t
DisplayMode(t, cd, cur) ==
    IF t - cd < IpTimeout THEN "ShowNetworkInfo"
    ELSE IF cur # None /\ cur.is_playing THEN "ShowTrack"
    ELSE "ShowClock"

Write(row, kind, text) == [row |-> row, kind |-> kind, text |-> text]

NetworkWrites == <<Write(1, "host", <<>>), Write(2, "ip", <<>>)>>
ClockWrites == <<Write(1, "time", <<>>), Write(2, "date", <<>>)>>

\* single_step: the artist line, with the liked glyph in front if liked
artist_display(cur) ==
    IF cur.is_liked THEN <<CGRAM_CHR1>> \o cur.artist ELSE cur.artist

\* offset_display_data, else branch: the third argument of each add_to_max,
\* the modulus for the artist, track and album offset
offset_moduli(cur) ==
    <<Len(cur.artist) + Len(WRAP_PAD),
      Len(cur.name) + Len(WRAP_PAD),
      Len(cur.album) + Len(WRAP_PAD)>>

\* substr_wrap: the buffer its index runs over when the text is longer than
\* the display
wrap_buffer(string) == string \o WRAP_PAD

\* the lcd.text calls of the ShowTrack branch of single_step
TrackWrites(cur, offs, rows) ==
    LET artist == offset_wrap(artist_display(cur), offs[1])
        track == offset_wrap(cur.name, offs[2])
        album == offset_wrap(cur.album, offs[3])
    IN  <<Write(1, "artist", artist), Write(2, "track", track)>>
        \o (IF rows > 2 THEN <<Write(3, "album", album)>> ELSE <<>>)

LCDInit ==
    /\ current_track = None
    /\ last_track = None
    /\ prev_last_track = None
    /\ bip = 0
    /\ countdown = 0
    /\ now = StartTime
    /\ lcd_rows \in 2..MaxRows
    /\ polled = "no"
    /\ mode = "none"
    /\ changed = FALSE
    /\ offsets = Unbound
    /\ writes = <<>>
    /\ raised = "none"
    /\ status = "running"
    /\ exit_code = -1
    /\ lcd_cleared = FALSE
    /\ backlight \in BOOLEAN
    /\ signum = "none"
    /\ sig_calls = <<>>

\* __main__: an exception leaving single_step is logged, then
\* clear_lcd_and_exit clears the display and calls sys.exit(0)
ExitAfter(exc) ==
    /\ raised' = exc
    /\ status' = "exited"
    /\ exit_code' = 0
    /\ lcd_cleared' = TRUE

\* One iteration of the top-level loop: LCD_Spotify.single_step reading the
\* clock as t, with the collaborator answering r and l if it is asked
Tick ==
    /\ status = "running"
    /\ \E t \in Readings(now), r \in PlayingResponses, l \in LikedResponses :
        LET p == IF bip = 0
                 THEN LCD_retrieve_track_data(current_track, r, l)
                 ELSE [current_track |-> current_track, raised |-> "none",
                       outcome |-> "no"]
            cur == p.current_track
            od == offset_display_data(last_track, cur)
            m == DisplayMode(t, countdown, cur)
        IN  /\ polled' = p.outcome
            /\ prev_last_track' = last_track
            /\ signum' = "none"
            /\ sig_calls' = <<>>
            /\ UNCHANGED <<countdown, lcd_rows, backlight>>
            /\ IF p.raised # "none"
               THEN /\ ExitAfter(p.raised)
                    /\ mode' = "none"
                    /\ changed' = FALSE
                    /\ writes' = <<>>
                    /\ UNCHANGED <<current_track, last_track, bip, now, offsets>>
               ELSE /\ current_track' = cur
                    /\ bip' = (bip + 1) % BIPS
                    /\ now' = t
                    /\ IF m = "ShowNetworkInfo"
                       THEN /\ mode' = "ShowNetworkInfo"
                            /\ writes' = NetworkWrites
                            /\ changed' = FALSE
                            /\ UNCHANGED <<last_track, offsets, raised, status,
                                           exit_code, lcd_cleared>>
                       ELSE IF m = "ShowTrack"
                       THEN /\ mode' = "ShowTrack"
                            /\ changed' = od.changed
                            /\ last_track' = od.last_track
                            /\ IF od.raised # "none"
                               THEN /\ ExitAfter(od.raised)
                                    /\ writes' = <<>>
                                    /\ UNCHANGED offsets
                               ELSE /\ offsets' = od.offsets
                                    /\ writes' = TrackWrites(cur, od.offsets, lcd_rows)
                                    /\ UNCHANGED <<raised, status, exit_code,
                                                   lcd_cleared>>
                       ELSE /\ mode' = "ShowClock"
                            /\ writes' = ClockWrites
                            /\ changed' = FALSE
                            /\ UNCHANGED <<last_track, offsets, raised, status,
                                           exit_code, lcd_cleared>>

\* SIGIO: LCD_Spotify.reset_countdown
ResetCountdown ==
    /\ status = "running"
    /\ \E t \in Readings(now) :
        /\ countdown' = t
        /\ now' = t
    /\ signum' = "SIGIO"
    /\ sig_calls' = <<>>
    /\ UNCHANGED <<current_track, last_track, prev_last_track, bip, lcd_rows,
                   polled, mode, changed, offsets, writes, raised, status, exit_code,
                   lcd_cleared, backlight>>

\* An exception that leaves a signal handler is raised in the main thread
\* where the signal interrupted it: inside single_step the loop's except
\* clauses catch it (clear_lcd_and_exit), during time.sleep nothing does and
\* the interpreter ends with status 1, the display untouched
HandlerRaised(exc, where) ==
    IF where = "single_step"
    THEN ExitAfter(exc)
    ELSE /\ raised' = exc
         /\ status' = "exited"
         /\ exit_code' = 1
         /\ UNCHANGED lcd_cleared

Interrupted == {"single_step", "sleep"}

\* LCD_Spotify.toggle_track_liked with the collaborator's call ending as o:
\* the calls issued and the exception that leaves the method
LCD_toggle_track_liked(cur, o) ==
    IF cur = None
    THEN \* None has no attribute is_playing
         [calls |-> <<>>, raised |-> "AttributeError"]
    ELSE IF ~cur.is_playing
    THEN [calls |-> <<>>, raised |-> "none"]
    ELSE [calls |-> IF cur.is_liked
                    THEN <<Call("current_user_saved_tracks_delete", cur.id)>>
                    ELSE <<Call("current_user_saved_tracks_add", cur.id)>>,
          raised |-> Raises(o)]

\* signal_handler, SIGUSR1: LCD_Spotify.toggle_backlight
ToggleBacklight ==
    /\ status = "running"
    /\ signum' = "SIGUSR1"
    /\ sig_calls' = <<>>
    /\ backlight' = ~backlight
    /\ UNCHANGED <<current_track, last_track, prev_last_track, bip, countdown,
                   now, lcd_rows, polled, mode, changed, offsets, writes, raised,
                   status, exit_code, lcd_cleared>>

\* signal_handler, SIGUSR2: LCD_Spotify.toggle_track_liked
ToggleTrackLiked ==
    /\ status = "running"
    /\ \E o \in CallOutcomes, where \in Interrupted :
        LET tl == LCD_toggle_track_liked(current_track, o)
        IN  /\ signum' = "SIGUSR2"
            /\ sig_calls' = tl.calls
            /\ IF tl.raised # "none"
               THEN HandlerRaised(tl.raised, where)
               ELSE UNCHANGED <<raised, status, exit_code, lcd_cleared>>
    /\ UNCHANGED <<current_track, last_track, prev_last_track, bip, countdown,
                   now, lcd_rows, polled, mode, changed, offsets, writes,
                   backlight>>

\* signal_handler, SIGINT: LCD_Spotify.clear_lcd, then sys.exit(0)
Interrupt ==
    /\ status = "running"
    /\ signum' = "SIGINT"
    /\ sig_calls' = <<>>
    /\ lcd_cleared' = TRUE
    /\ status' = "exited"
    /\ exit_code' = 0
    /\ UNCHANGED <<current_track, last_track, prev_last_track, bip, countdown,
                   now, lcd_rows, polled, mode, changed, offsets, writes, raised,
                   backlight>>

\* Signals for which signal_handler of lcd_spotify.py has no branch
OtherSignals == {"SIGHUP", "SIGTERM", "SIGALRM"}

\* signal_handler, the else branch: "Unknown signal received." is printed
UnknownSignal ==
    /\ status = "running"
    /\ \E s \in OtherSignals : signum' = s
    /\ sig_calls' = <<>>
    /\ UNCHANGED <<current_track, last_track, prev_last_track, bip, countdown,
                   now, lcd_rows, polled, mode, changed, offsets, writes, raised,
                   status, exit_code, lcd_cleared, backlight>>

Next ==
    \/ Tick /\ UNCHANGED <<smVars, toolVars>>
    \/ ResetCountdown /\ UNCHANGED <<smVars, toolVars>>

\* The signal handler of lcd_spotify.py, invoked between two ticks
NextSignals ==
    \/ ResetCountdown /\ UNCHANGED <<smVars, toolVars>>
    \/ ToggleBacklight /\ UNCHANGED <<smVars, toolVars>>
    \/ ToggleTrackLiked /\ UNCHANGED <<smVars, toolVars>>
    \/ Interrupt /\ UNCHANGED <<smVars, toolVars>>
    \/ UnknownSignal /\ UNCHANGED <<smVars, toolVars>>

WrapIdle ==
    /\ t_string = <<>>
    /\ t_start = 0
    /\ t_length = 0
    /\ t_pad = <<>>
    /\ t_out = <<>>
    /\ t_mod = {}
    /\ t_pc = "idle"

ToolsIdle == WrapIdle /\ DiaIdle

\* LCD_Spotify as constructed, for the specifications that do not run it
LCDIdle ==
    /\ LCDInit
    /\ lcd_rows = 2
    /\ backlight = TRUE

\* The tick loop runs with the default LCD_BACKLIGHT
Init == LCDInit /\ backlight = TRUE /\ SMInit /\ ToolsIdle

Spec == Init /\ [][Next]_vars

InitManager == SMInit /\ LCDIdle /\ ToolsIdle

SpecManager == InitManager /\ [][NextManager]_vars

\* The snapshots a poll of LCD_Spotify can leave in current_track
Snapshots ==
    {None} \cup
    {LCD_retrieve_track_data(None, r, l).current_track :
        r \in PlayingResponses, l \in LikedResponses}

\* LCD_Spotify between two ticks, holding any snapshot a poll can leave
InitSignals ==
    /\ current_track \in Snapshots
    /\ last_track \in {None, current_track}
    /\ prev_last_track = None
    /\ bip = 1
    /\ countdown = 0
    /\ now = StartTime
    /\ lcd_rows = 2
    /\ polled = "ok"
    /\ mode = "none"
    /\ changed = FALSE
    /\ offsets = Unbound
    /\ writes = <<>>
    /\ raised = "none"
    /\ status = "running"
    /\ exit_code = -1
    /\ lcd_cleared = FALSE
    /\ backlight \in BOOLEAN
    /\ signum = "none"
    /\ sig_calls = <<>>
    /\ SMInit
    /\ ToolsIdle

SpecSignals == InitSignals /\ [][NextSignals]_vars

(***************************************************************************)
(* __main__.py driving SpotifyManager through the renderer's step           *)
(***************************************************************************)
\* Answers of current_user_playing_track given to the loop of __main__
MainResponses ==
    {r \in PlayingResponses :
        r.kind = "track" => (r.item = Item1 \/ (r.item = Item4 /\ r.is_playing))}

\* The renderer's step as the design describes it: poll when due, compute the
\* display mode, and in ShowTrack consume the change.  The text written to
\* the display is not part of this specification.
LcdSpotify_single_step(t) ==
    /\ sm_op' = "single_step"
    /\ sm_outcome' = NoOutcome
    /\ IF bip = 0
       THEN \E r \in MainResponses, l \in LikedResponses : SM_retrieve(r, l)
       ELSE /\ sm_resp' = NoResponse
            /\ sm_liked_resp' = NoLikedCall
            /\ sm_calls' = <<>>
            /\ sm_raised' = "none"
            /\ UNCHANGED sm_current_track
    /\ IF sm_raised' # "none"
       THEN /\ mode' = "none"
            /\ sm_ret' = FALSE
            /\ UNCHANGED <<sm_last_track, bip, now>>
       ELSE /\ bip' = (bip + 1) % BIPS
            /\ now' = t
            /\ mode' = DisplayMode(t, countdown, sm_current_track')
            /\ IF mode' = "ShowTrack"
               THEN LET flag == Ne(sm_last_track, sm_current_track')
                    IN  /\ sm_ret' = flag
                        /\ sm_last_track' =
                                IF flag THEN sm_current_track' ELSE sm_last_track
               ELSE /\ sm_ret' = FALSE
                    /\ UNCHANGED sm_last_track

\* clear_lcd_and_exit: ExtendedLcd.clear clears the display and turns the
\* backlight off, then sys.exit(0)
clear_lcd_and_exit ==
    /\ lcd_cleared' = TRUE
    /\ backlight' = FALSE
    /\ status' = "exited"
    /\ exit_code' = 0

\* One iteration of the loop of __main__: single_step inside the try, whose
\* three except clauses all log and call clear_lcd_and_exit
MainTick ==
    /\ status = "running"
    /\ \E t \in Readings(now) : LcdSpotify_single_step(t)
    /\ signum' = "none"
    /\ raised' = sm_raised'
    /\ IF sm_raised' # "none"
       THEN clear_lcd_and_exit
       ELSE UNCHANGED <<lcd_cleared, backlight, status, exit_code>>
    /\ UNCHANGED <<current_track, last_track, prev_last_track, countdown,
                   lcd_rows, polled, changed, offsets, writes, sig_calls>>

\* The keys of sig_options, and the signals that are not among them
DispatchSet ==
    {"SIGUSR1", "SIGUSR2", "SIGIO", "SIGALRM", "SIGHUP", "SIGINT", "SIGTERM"}
UndispatchedSignals == {"SIGQUIT", "SIGPIPE"}

\* An exception leaving signal_handler of __main__ where the signal
\* interrupted the loop: inside the try it is caught and clear_lcd_and_exit
\* runs, during time.sleep it ends the interpreter with status 1
MainHandlerRaised(exc, where) ==
    /\ raised' = exc
    /\ IF exc = "none"
       THEN UNCHANGED <<lcd_cleared, backlight, status, exit_code>>
       ELSE IF where = "single_step"
       THEN clear_lcd_and_exit
       ELSE /\ status' = "exited"
            /\ exit_code' = 1
            /\ UNCHANGED <<lcd_cleared, backlight>>

\* signal_handler of __main__ invoked with signum s
Main_signal_handler ==
    /\ status = "running"
    /\ \E s \in DispatchSet \cup UndispatchedSignals, where \in Interrupted :
        /\ signum' = s
        /\ IF s = "SIGUSR1"
           THEN \* ExtendedLcd.toggle_backlight
                /\ backlight' = ~backlight
                /\ UNCHANGED <<smVars, countdown, now, raised, status, exit_code,
                               lcd_cleared>>
           ELSE IF s = "SIGUSR2"
           THEN /\ SM_toggle_track_liked
                /\ MainHandlerRaised(sm_raised', where)
                /\ UNCHANGED <<countdown, now>>
           ELSE IF s = "SIGALRM"
           THEN /\ SM_next_track
                /\ MainHandlerRaised(sm_raised', where)
                /\ UNCHANGED <<countdown, now>>
           ELSE IF s = "SIGIO"
           THEN \* reset_countdown: the countdown starts at the clock's reading
                /\ \E t \in Readings(now) :
                    /\ countdown' = t
                    /\ now' = t
                /\ UNCHANGED <<smVars, raised, status, exit_code, lcd_cleared,
                               backlight>>
           ELSE IF s \in {"SIGHUP", "SIGINT", "SIGTERM"}
           THEN /\ clear_lcd_and_exit
                /\ UNCHANGED <<smVars, countdown, now, raised>>
           ELSE \* sig_options[signum] raises KeyError, which the handler's
                \* except IndexError does not catch
                /\ MainHandlerRaised("KeyError", where)
                /\ UNCHANGED <<smVars, countdown, now>>
    /\ UNCHANGED <<current_track, last_track, prev_last_track, bip, lcd_rows,
                   polled, mode, changed, offsets, writes, sig_calls>>

NextMain ==
    \/ MainTick /\ UNCHANGED toolVars
    \/ Main_signal_handler /\ UNCHANGED toolVars

InitMain == SMInit /\ LCDIdle /\ ToolsIdle

SpecMain == InitMain /\ [][NextMain]_vars

InitTools ==
    /\ \/ ToolsInit /\ DiaIdle
       \/ WrapIdle /\ DiaInit
    /\ SMInit
    /\ LCDIdle

SpecTools == InitTools /\ [][NextTools]_vars

(***************************************************************************)
(* Properties                                                              *)
(***************************************************************************)
\* two snapshots differ in identity: exactly one is absent, or both are
\* present and differ in id, name, album or artist
Differ(a, b) ==
    \/ (a = None) # (b = None)
    \/ /\ a # None
       /\ b # None
       /\ \/ a.id # b.id
          \/ a.name # b.name
          \/ a.album # b.album
          \/ a.artist # b.artist

\* a step of the tick loop (single_step always moves bip unless the poll raised)
IsTick == bip' # bip

\* the scroll bounds of a rendered snapshot: field length + pad length
Bounds(td) == <<Len(td.artist) + Len(WRAP_PAD), Len(td.name) + Len(WRAP_PAD),
                Len(td.album) + Len(WRAP_PAD)>>

\* C1: a retrieve_track_data whose get-current-track call times out returns
\* normally and leaves the current snapshot, hence artist, track name and
\* album name, as they were, whatever the snapshot was (none included).
C1_TimeoutKeepsSnapshot ==
    [][(sm_op' = "retrieve_track_data" /\ sm_resp'.kind = "timeout") =>
          /\ sm_raised' = "none"
          /\ sm_current_track' = sm_current_track
          /\ get_artist(sm_current_track') = get_artist(sm_current_track)
          /\ get_track_name(sm_current_track') = get_track_name(sm_current_track)
          /\ get_album_name(sm_current_track') = get_album_name(sm_current_track)
      ]_vars

C1_Witness ==
    /\ sm_op = "retrieve_track_data"
    /\ sm_resp.kind = "timeout"
    /\ sm_current_track # None
    /\ sm_raised = "none"

\* C2: on a ShowTrack tick whose change test reported a change, the artist,
\* track and album offsets are all 0 together.
C2_ResetTogether ==
    (mode = "ShowTrack" /\ changed) => offsets = <<0, 0, 0>>

C2_Witness ==
    /\ mode = "ShowTrack"
    /\ changed
    /\ prev_last_track # None
    /\ offsets = <<0, 0, 0>>
    /\ writes # <<>>

\* C3: on a ShowTrack tick that renders the track rendered before, the tick
\* completes without error and each offset becomes (offset + 1) modulo
\* (field length + 4).
C3_OffsetsAdvance ==
    [][(IsTick /\ mode' = "ShowTrack" /\ ~Differ(last_track, current_track')) =>
          /\ raised' = "none"
          /\ offsets # Unbound
          /\ offsets' # Unbound
          /\ \A k \in 1..3 :
                offsets'[k] = (offsets[k] + 1) % Bounds(current_track')[k]
      ]_vars

\* C4: a poll that changes only is_playing or is_liked of the rendered track
\* is not a track change: the change test of the next ShowTrack tick is false
\* and the offsets are not reset.
C4_LikedIsNoChange ==
    [][(IsTick /\ mode' = "ShowTrack" /\ ~Differ(last_track, current_track')) =>
          ~changed'
      ]_vars

\* C5: update_last_track returns true exactly when current and last-rendered
\* differ in identity; then last-rendered becomes current, otherwise it is
\* unchanged; the two agree after the call, so the call that follows with no
\* refresh in between returns false.
C5_ConsumeChange ==
    [][(sm_op' = "update_last_track") =>
          /\ sm_ret' = Differ(sm_last_track, sm_current_track)
          /\ sm_ret' => sm_last_track' = sm_current_track
          /\ ~sm_ret' => sm_last_track' = sm_last_track
          /\ ~Differ(sm_last_track', sm_current_track')
          /\ (sm_op \in {"update_last_track", "next_track", "toggle_track_liked"}
                /\ ~Differ(sm_last_track, sm_current_track)) => ~sm_ret'
      ]_vars

C5_Witness ==
    /\ sm_op = "update_last_track"
    /\ ~sm_ret
    /\ sm_last_track # None
    /\ sm_current_track # None
    /\ sm_last_track.is_liked # sm_current_track.is_liked

\* C6: a tick that reads the clock inside the countdown window writes the
\* host line to row 1 and the address line to row 2 and nothing else,
\* whatever the tracker holds.
C6_NetworkInfoPreempts ==
    [][(IsTick /\ now' - countdown < IpTimeout) => writes' = NetworkWrites]_vars

C6_Witness ==
    /\ mode = "ShowNetworkInfo"
    /\ now - countdown < IpTimeout
    /\ current_track # None
    /\ current_track.is_playing
    /\ current_track.is_liked
    /\ writes = NetworkWrites

\* C7: a retrieve_track_data whose calls all succeed makes the current
\* snapshot exactly what the collaborator reported (none when it reported no
\* track), and no retrieve_track_data touches last-rendered.
C7_WholesaleReplace ==
    [][(sm_op' = "retrieve_track_data") =>
          /\ sm_last_track' = sm_last_track
          /\ (sm_raised' = "none" /\ sm_resp'.kind = "none") =>
                sm_current_track' = None
          /\ (sm_raised' = "none" /\ sm_resp'.kind = "track"
                /\ sm_liked_resp' \in {"true", "false"}) =>
                /\ sm_current_track' # None
                /\ sm_current_track'.id = sm_resp'.item.id
                /\ sm_current_track'.name = sm_resp'.item.name
                /\ sm_current_track'.artist =
                      _get_artist_and_album_from_track(sm_resp')[1]
                /\ sm_current_track'.album =
                      _get_artist_and_album_from_track(sm_resp')[2]
                /\ sm_current_track'.is_playing = sm_resp'.is_playing
                /\ sm_current_track'.is_liked = (sm_liked_resp' = "true")
      ]_vars

C7_Witness ==
    /\ sm_op = "retrieve_track_data"
    /\ sm_resp.kind = "track"
    /\ sm_liked_resp = "false"
    /\ sm_last_track # None
    /\ sm_last_track.is_liked
    /\ sm_last_track.id = sm_current_track.id
    /\ ~sm_current_track.is_liked

\* the window (text + pad)[(start + i) mod len(text + pad)], i < length
IsWindow(out, text, start, length, pad) ==
    /\ Len(out) = length
    /\ \A i \in 0..(length - 1) :
          out[i + 1] = (text \o pad)[((start + i) % Len(text \o pad)) + 1]

\* the call made was substr_wrap(text, start, length, pad)
Called(text, start, length, pad) ==
    /\ t_pc = "done"
    /\ t_string = text
    /\ t_start = start
    /\ t_length = length
    /\ t_pad = pad

C9_ShortTextUnchanged ==
    (t_pc = "done" /\ Len(t_string) <= t_length) => t_out = t_string

C9_Witness ==
    /\ t_pc = "done"
    /\ Len(t_string) = t_length
    /\ t_length > 0
    /\ t_start > 0
    /\ t_pad = WRAP_PAD
    /\ t_out = t_string

\* C10: every offset is at least 0 and below (length of the rendered field +
\* pad length), also right after a change to a track with a shorter field.
C10_OffsetsInBounds ==
    offsets # Unbound =>
        /\ last_track # None
        /\ \A k \in 1..3 : 0 <= offsets[k] /\ offsets[k] < Bounds(last_track)[k]

C10_Witness ==
    /\ mode = "ShowTrack"
    /\ changed
    /\ offsets # Unbound
    /\ prev_last_track # None
    /\ Len(last_track.name) < Len(prev_last_track.name)
    /\ Len(last_track.album) < Len(prev_last_track.album)
    /\ Len(last_track.album) = 0

\* C11: remove_diacritics is idempotent on table characters, precomposed
\* accented letters and ASCII: applying it to its own result changes nothing.
C11_Idempotent ==
    d_pc = "twice" => d_twice = d_once

\* C13: next_track issues no request when there is no snapshot or it is not
\* playing, exactly one skip request when it is playing, absorbs a timeout of
\* that request, and never modifies current_track or last_track.
C13_Skip ==
    [][sm_op' = "next_track" =>
        /\ sm_current_track' = sm_current_track
        /\ sm_last_track' = sm_last_track
        /\ sm_raised' # "Timeout"
        /\ IF sm_current_track = None
           THEN sm_calls' = <<>> /\ sm_raised' = "none"
           ELSE IF ~sm_current_track.is_playing
           THEN sm_calls' = <<>> /\ sm_raised' = "none"
           ELSE /\ sm_calls' = <<Call("next_track", "")>>
                /\ sm_outcome' = "timeout" => sm_raised' = "none"]_vars

C13_Witness ==
    /\ sm_op = "next_track"
    /\ sm_current_track # None
    /\ sm_calls = <<Call("next_track", "")>>
    /\ sm_outcome = "timeout"
    /\ sm_raised = "none"

\* C12: toggling the liked flag issues no collaborator call and does not fail
\* when there is no snapshot or it is not playing; when a track is playing it
\* issues exactly one call, unlike(id) if the snapshot is liked and like(id)
\* otherwise, and no exception leaves it.
C12_ToggleLiked ==
    [][signum' = "SIGUSR2" =>
        IF current_track = None
        THEN sig_calls' = <<>> /\ raised' = "none"
        ELSE IF ~current_track.is_playing
        THEN sig_calls' = <<>> /\ raised' = "none"
        ELSE /\ sig_calls' =
                    <<Call(IF current_track.is_liked
                           THEN "current_user_saved_tracks_delete"
                           ELSE "current_user_saved_tracks_add",
                           current_track.id)>>
             /\ raised' \notin {"Timeout", "AttributeError"}]_vars

\* C15: on a display with exactly 2 rows no ShowTrack tick writes the album
\* text and no error results; on a display with 3 or more rows every ShowTrack
\* tick writes the album line to row 3; the artist goes to row 1 and the track
\* to row 2 in both cases.
C15_AlbumRow ==
    [][(IsTick /\ mode' = "ShowTrack") =>
        /\ raised' = "none"
        /\ Len(writes') >= 2
        /\ writes'[1].row = 1 /\ writes'[1].kind = "artist"
        /\ writes'[2].row = 2 /\ writes'[2].kind = "track"
        /\ \A i \in 1..Len(writes') :
            writes'[i].kind = "album" => writes'[i].row = 3 /\ lcd_rows >= 3
        /\ lcd_rows >= 3 =>
            \E i \in 1..Len(writes') :
                writes'[i] = Write(3, "album",
                                   offset_wrap(current_track'.album, offsets'[3]))]_vars

\* C16: a graceful-shutdown signal (SIGHUP, SIGINT or SIGTERM) clears the
\* display and then ends the process with exit code 0, and handling it writes
\* no text to the display.
C16_GracefulShutdown ==
    [][signum' \in {"SIGHUP", "SIGINT", "SIGTERM"} =>
        /\ lcd_cleared'
        /\ status' = "exited"
        /\ exit_code' = 0
        /\ writes' = writes]_vars

\* C18: the accessors never fail; is_playing is true exactly when a snapshot
\* exists and its is_playing is true; without a snapshot is_liked is false and
\* artist, track and album are the empty string; with one they are its fields.
C18_Accessors ==
    [][/\ sm_op' \in {"get_artist", "get_album_name", "get_track_name",
                      "is_track_liked", "is_track_playing"} =>
            sm_raised' = "none"
       /\ sm_op' = "is_track_playing" =>
            (sm_ret' <=> (sm_current_track # None /\ sm_current_track.is_playing))
       /\ sm_op' = "is_track_liked" =>
            sm_ret' = (IF sm_current_track = None THEN FALSE
                       ELSE sm_current_track.is_liked)
       /\ sm_op' = "get_artist" =>
            sm_ret' = (IF sm_current_track = None THEN <<>>
                       ELSE sm_current_track.artist)
       /\ sm_op' = "get_track_name" =>
            sm_ret' = (IF sm_current_track = None THEN <<>>
                       ELSE sm_current_track.name)
       /\ sm_op' = "get_album_name" =>
            sm_ret' = (IF sm_current_track = None THEN <<>>
                       ELSE sm_current_track.album)]_vars

C18_Witness ==
    /\ sm_op = "is_track_playing"
    /\ sm_current_track # None
    /\ ~sm_current_track.is_playing
    /\ sm_current_track.is_liked
    /\ sm_ret = FALSE

\* C19: for every field scrolled in ShowTrack, the modulus under which the
\* renderer advances the field's offset is the length of the buffer that wrap
\* indexes for it (displayed text + pad), also for the artist line when the
\* liked glyph is prefixed.
C19_ModulusIsBufferLength ==
    (mode = "ShowTrack" /\ raised = "none") =>
        LET m == offset_moduli(current_track)
            shown == <<artist_display(current_track), current_track.name,
                       current_track.album>>
        IN  \A i \in 1..3 :
                Len(shown[i]) > LcdWidth => m[i] = Len(wrap_buffer(shown[i]))

\* C20: when the request for the current track succeeds but the is-liked
\* lookup of the same poll times out, the poll leaves the snapshot, is_liked
\* included, as it was before the call.
C20_LikedTimeoutKeepsSnapshot ==
    [][(/\ sm_op' = "retrieve_track_data"
        /\ sm_resp'.kind = "track"
        /\ sm_liked_resp' = "timeout") =>
            sm_current_track' = sm_current_track]_vars

\* the poll of the last step met a collaborator exception that is no timeout
PollFault ==
    \/ sm_resp.kind \in {"error", "connection"}
    \/ sm_resp.kind = "track" /\ sm_liked_resp \in {"error", "connection"}

\* C14: a collaborator exception during a tick that is not a timeout is not
\* swallowed by the tracker: it reaches the top-level loop, which clears the
\* display and ends the process, and no further tick runs after it.
C14_FatalPropagates ==
    [][/\ (signum' = "none" /\ sm_op' = "single_step" /\ PollFault') =>
            /\ sm_raised' \in {"SpotifyException", "ConnectionError"}
            /\ raised' = sm_raised'
            /\ lcd_cleared'
            /\ status' = "exited"
       /\ status = "exited" => (status' = "exited" /\ bip' = bip /\ sm_op' = sm_op)]_vars

C14_Witness ==
    /\ signum = "none"
    /\ sm_op = "single_step"
    /\ sm_resp.kind = "connection"
    /\ raised = "ConnectionError"
    /\ lcd_cleared
    /\ status = "exited"
    /\ sm_current_track # None

\* C17: the signal handler invoked with a signal number outside its dispatch
\* set logs a warning and returns normally: no exception leaves it, it asks the
\* collaborator nothing, touches the display not at all, and the loop goes on.
C17_UnknownSignalIgnored ==
    [][signum' \in UndispatchedSignals =>
        /\ raised' = "none"
        /\ status' = "running"
        /\ UNCHANGED <<sm_calls, lcd_cleared, backlight, writes>>]_vars

\* C21: a tick in ShowNetworkInfo or ShowClock mode leaves the three offsets
\* and the last-rendered snapshot unchanged and makes no change test; the
\* offsets change only on ShowTrack ticks; each ShowTrack tick makes the change
\* test exactly once: it reports whether last-rendered and current differed,
\* and last-rendered is current afterwards.
C21_FrameOfTicks ==
    [][/\ (IsTick /\ mode' \in {"ShowNetworkInfo", "ShowClock"}) =>
            /\ offsets' = offsets
            /\ last_track' = last_track
            /\ ~changed'
       /\ offsets' # offsets => (IsTick /\ mode' = "ShowTrack")
       /\ last_track' # last_track => (IsTick /\ mode' = "ShowTrack")
       /\ (IsTick /\ mode' = "ShowTrack") =>
            /\ changed' = (last_track # current_track')
            /\ last_track' = current_track']_vars

C21_Witness ==
    /\ mode = "ShowClock"
    /\ offsets = <<0, 0, 0>>
    /\ last_track # None
    /\ current_track # None
    /\ last_track # current_track
    /\ polled = "ok"

\* C22: with poll period BIPS the poll is attempted on exactly the ticks whose
\* index is a multiple of BIPS, whether or not earlier polls timed out; the
\* tick counter stays within 0..BIPS-1; a tick whose poll timed out still
\* renders the display, and the next attempt comes BIPS ticks later.
C22_PollCadence ==
    [][IsTick =>
        /\ bip \in 0..(BIPS - 1)
        /\ bip' = (bip + 1) % BIPS
        /\ (polled' # "no") <=> (bip = 0)
        /\ polled' = "timeout" =>
            /\ bip' = 1
            /\ raised' = "none"
            /\ writes' # <<>>]_vars

\* C23: an exception raised inside a tick makes the top level clear the
\* display and terminate, with an exit status that differs from the status 0
\* of a requested shutdown.
C23_ErrorExitStatus ==
    [][(signum' = "none" /\ raised = "none" /\ raised' # "none") =>
        /\ lcd_cleared'
        /\ status' = "exited"
        /\ exit_code' # 0]_vars

\* C24: after the countdown was reset at time t, every tick at a time before
\* t + ip_timeout renders network info, and the first tick at a later time
\* renders the track or the clock again; at startup, with the countdown at 0,
\* no tick renders network info.
C24_CountdownWindow ==
    [][IsTick =>
        /\ now' - countdown < IpTimeout =>
            (mode' = "ShowNetworkInfo" /\ writes' = NetworkWrites)
        /\ (mode = "ShowNetworkInfo" /\ now' - countdown >= IpTimeout) =>
            /\ mode' \in {"ShowTrack", "ShowClock"}
            /\ raised' = "none"
            /\ writes' # <<>>
            /\ writes' # NetworkWrites
        /\ countdown = 0 => mode' # "ShowNetworkInfo"]_vars

\* C25: a signal handler never changes the current snapshot, the last-rendered
\* snapshot or the offsets; toggle-liked and skip only call the collaborator,
\* so two toggle-liked signals with no poll in between issue the same request
\* twice; toggle-backlight changes only the backlight; show-network-info
\* changes only the start of the countdown.
C25_HandlersKeepTracker ==
    [][signum' # "none" =>
        /\ sm_current_track' = sm_current_track
        /\ sm_last_track' = sm_last_track
        /\ offsets' = offsets
        /\ bip' = bip
        /\ signum' \in {"SIGUSR2", "SIGALRM"} =>
            /\ backlight' = backlight \/ status' = "exited"
            /\ countdown' = countdown
        /\ (signum' = "SIGUSR2" /\ signum = "SIGUSR2" /\ sm_calls # <<>>) =>
            sm_calls' = sm_calls
        /\ signum' = "SIGUSR1" =>
            /\ backlight' = ~backlight
            /\ countdown' = countdown
            /\ sm_calls' = sm_calls
            /\ status' = "running"
        /\ signum' = "SIGIO" =>
            /\ backlight' = backlight
            /\ sm_calls' = sm_calls
            /\ status' = "running"]_vars

C25_Witness ==
    /\ signum = "SIGUSR2"
    /\ sm_op = "toggle_track_liked"
    /\ sm_current_track # None
    /\ sm_current_track.is_liked
    /\ sm_calls = <<Call("current_user_saved_tracks_delete", sm_current_track.id)>>
    /\ sm_last_track = sm_current_track
    /\ status = "running"

\* C26: nothing in the scrolling logic computes an index modulo zero: when the
\* indexing branch of substr_wrap computes an index (len(text) > length >= 0)
\* its modulus is the length of text + pad and is not 0, for every pad, the
\* empty one included; and the modulus that advances an offset, field length
\* + pad length, is at least 4, also for an empty field.
C26_NoModuloZero ==
    t_pc = "done" =>
        /\ \A m \in t_mod : m > 0
        /\ (Len(t_string) > t_length /\ t_length >= 1) =>
            t_mod = {Len(t_string \o t_pad)}
        /\ \A k \in 1..3 :
            offset_moduli([artist |-> t_string, name |-> t_string,
                           album |-> t_string])[k] >= 4

C26_Witness ==
    /\ t_pc = "done"
    /\ t_pad = <<>>
    /\ t_length >= 1
    /\ Len(t_string) > t_length
    /\ t_mod = {Len(t_string)}

\* C27: every termination of the process is preceded by a clear of the
\* display: after a shutdown signal, after an exception raised inside a tick,
\* and after an exception raised by a signal handler that runs while the loop
\* sleeps between two ticks (the signals of the dispatch set are meant).
C27_ClearBeforeExit ==
    (status = "exited" /\ signum \in DispatchSet \cup {"none"}) => lcd_cleared

\* C28: a track change polled while the display shows network info or the
\* clock is not lost: the first ShowTrack tick afterwards reports the change
\* and has all offsets 0; at the end of every ShowTrack tick last-rendered and
\* current agree in identity; and resuming the rendered track after a pause
\* is no change and resets no offset.
C28_ChangeNotLost ==
    [][(IsTick /\ mode' = "ShowTrack") =>
        /\ Differ(last_track, current_track') =>
            (changed' /\ offsets' = <<0, 0, 0>>)
        /\ ~Differ(last_track', current_track')
        /\ (/\ current_track # None
            /\ ~current_track.is_playing
            /\ ~Differ(last_track, current_track)
            /\ ~Differ(last_track, current_track')) => ~changed']_vars

====
